---- MODULE Spec2Model ----
(***************************************************************************)
(* State-machine model of gpcr_streamlit_app.py (the "Predict" tab).       *)
(*                                                                         *)
(* A Streamlit script is re-executed top to bottom on every widget         *)
(* interaction.  The widget values (text area, file uploader, slider,      *)
(* checkbox) persist between executions, the button is True only in the    *)
(* execution its click triggers.  One action of the model is one widget    *)
(* interaction together with the whole script execution it causes.         *)
(*                                                                         *)
(* Strings are sequences of one-character strings.  Probabilities and the  *)
(* threshold are counted in hundredths (0.55 is 55), the slider having     *)
(* step 0.01.                                                              *)
(***************************************************************************)
EXTENDS Integers, Sequences, FiniteSets, TLC

VARIABLES
    smiles_text,   \* st.text_area value                        (line 102)
    uploaded,      \* st.file_uploader value                    (line 103)
    threshold,     \* st.slider value, in hundredths            (line 76)
    show_raw,      \* st.checkbox value                         (line 106)
    run_btn,       \* st.button value in the last execution     (line 107)
    smiles_list,   \* the script's smiles_list after resolution (109-121)
    errors,        \* st.error messages of the last execution
    infos,         \* st.info messages of the last execution
    calls,         \* arguments _mock_gpcr_results was invoked with
    results,       \* the DataFrame `results`, a sequence of rows
    shown,         \* st.dataframe tables of the last execution
    downloads,     \* st.download_button calls: file name -> data
    remembered     \* an earlier execution kept for comparison (history)

vars == <<smiles_text, uploaded, threshold, show_raw, run_btn, smiles_list,
          errors, infos, calls, results, shown, downloads, remembered>>

(***************************************************************************)
(* Bounds of the model.                                                    *)
(***************************************************************************)
MaxTextLen == 2      \* characters of free text in the application runs
MaxRows == 2         \* data rows of an uploaded CSV
MaxLineTextLen == 3  \* characters of free text in the parsing runs

(***************************************************************************)
(* Text.                                                                   *)
(***************************************************************************)
Chars == {"C", "N", " ", "\n"}
LineBreaks == {"\n"}          \* str.splitlines boundaries in the alphabet
Whitespace == {" ", "\n"}     \* str.isspace characters in the alphabet

TextsUpTo(n) == UNION {[1..k -> Chars] : k \in 0..n}

\* Index of the first line boundary of s, 0 when there is none.
FirstBreak(s) ==
    IF \E i \in 1..Len(s) : s[i] \in LineBreaks
    THEN CHOOSE i \in 1..Len(s) :
            /\ s[i] \in LineBreaks
            /\ \A j \in 1..(i - 1) : s[j] \notin LineBreaks
    ELSE 0

\* str.splitlines(): "" gives [], a trailing boundary opens no further line.
RECURSIVE splitlines(_)
splitlines(s) ==
    IF s = <<>> THEN <<>>
    ELSE LET k == FirstBreak(s)
         IN  IF k = 0 THEN <<s>>
             ELSE <<SubSeq(s, 1, k - 1)>> \o splitlines(SubSeq(s, k + 1, Len(s)))

RECURSIVE lstrip(_)
lstrip(s) == IF s # <<>> /\ Head(s) \in Whitespace THEN lstrip(Tail(s)) ELSE s

RECURSIVE rstrip(_)
rstrip(s) ==
    IF s # <<>> /\ s[Len(s)] \in Whitespace
    THEN rstrip(SubSeq(s, 1, Len(s) - 1))
    ELSE s

\* str.strip()
strip(s) == rstrip(lstrip(s))

\* Mutant of ParseText: the lines are not trimmed.
ParseTextUntrimmed(text) ==
    SelectSeq(splitlines(text), LAMBDA s : strip(s) # <<>>)

\* [s.strip() for s in smiles_text.splitlines() if s.strip()]
ParseText(text) ==
    LET kept == SelectSeq(splitlines(text), LAMBDA s : strip(s) # <<>>)
    IN  [i \in 1..Len(kept) |-> strip(kept[i])]

(***************************************************************************)
(* Uploads.  An uploaded file either cannot be parsed by pd.read_csv or    *)
(* is a table; of a table the script reads the column names and the        *)
(* `smiles` column only.  A cell is a string or a missing value (NaN).     *)
(***************************************************************************)
NaN == [kind |-> "nan", val |-> <<>>]
StrCell(s) == [kind |-> "str", val |-> s]
Cells == {StrCell(<<"C">>), NaN}

CellSeqsUpTo(n) == UNION {[1..k -> Cells] : k \in 0..n}

NoUpload == [kind |-> "none", columns |-> {}, smiles |-> <<>>]
Malformed == [kind |-> "malformed", columns |-> {}, smiles |-> <<>>]
Table(cols, col) == [kind |-> "csv", columns |-> cols, smiles |-> col]

UploadsUpTo(n) ==
    {NoUpload, Malformed, Table({"name"}, <<>>)}
        \cup {Table({"smiles"}, col) : col \in CellSeqsUpTo(n)}

\* Series.astype(str) on one cell: a missing value becomes the text "nan".
astype_str(cell) ==
    IF cell.kind = "nan" THEN <<"n", "a", "n">> ELSE cell.val

\* df_up["smiles"].astype(str).tolist()
tolist(col) == [i \in 1..Len(col) |-> astype_str(col[i])]

(***************************************************************************)
(* _mock_gpcr_results.  A DataFrame is the sequence of its rows; a row     *)
(* carries its index label (pandas' default RangeIndex, from 0).           *)
(***************************************************************************)
AgonistScore == 55       \* base["p_agonist"] = 0.55
AntagonistScore == 35    \* base["p_antagonist"] = 0.35
InactiveScore == 10      \* base["p_inactive"] = 0.10

\* The columns idxmax ranges over, in the order line 65 lists them.
ScoreColumns == <<"p_agonist", "p_antagonist", "p_inactive">>

\* DataFrame.idxmax(axis=1) on one row: the label of the first column
\* attaining the row's maximum.
idxmax(r) ==
    LET k == CHOOSE i \in 1..Len(ScoreColumns) :
                /\ \A j \in 1..Len(ScoreColumns) :
                        r[ScoreColumns[j]] <= r[ScoreColumns[i]]
                /\ \A j \in 1..(i - 1) :
                        r[ScoreColumns[j]] # r[ScoreColumns[i]]
    IN  ScoreColumns[k]

\* (base["p_agonist"] >= threshold).astype(int) on one row
astype_int(b) == IF b THEN 1 ELSE 0

MockRow(i, s, pa, decision) ==
    LET scores == [p_agonist |-> pa, p_antagonist |-> AntagonistScore,
                   p_inactive |-> InactiveScore]
    IN  [index |-> i - 1, smiles |-> s,
         p_agonist |-> scores.p_agonist,
         p_antagonist |-> scores.p_antagonist,
         p_inactive |-> scores.p_inactive,
         pred_label |-> idxmax(scores),
         binary_agonist_vs_antagonist |-> decision]

\* Drops every identifier that occurred earlier in the sequence.
RECURSIVE Dedup(_)
Dedup(s) ==
    IF s = <<>> THEN <<>>
    ELSE LET init == Dedup(SubSeq(s, 1, Len(s) - 1))
             last == s[Len(s)]
         IN  IF \E i \in 1..Len(init) : init[i] = last
             THEN init ELSE Append(init, last)

\* Mutants of _mock_gpcr_results: duplicate identifiers share one row; the
\* decision compares with > ; the agonist score follows the threshold.
_mock_dedup(smiles, thr) ==
    LET u == Dedup(smiles)
    IN  [i \in 1..Len(u) |->
            MockRow(i, u[i], AgonistScore,
                    astype_int(AgonistScore >= thr))]

_mock_strict(smiles, thr) ==
    [i \in 1..Len(smiles) |->
        MockRow(i, smiles[i], AgonistScore,
                astype_int(AgonistScore > thr))]

_mock_follow_threshold(smiles, thr) ==
    [i \in 1..Len(smiles) |->
        MockRow(i, smiles[i], thr, astype_int(thr >= thr))]

_mock_gpcr_results(smiles, thr) ==
    [i \in 1..Len(smiles) |->
        LET scores == [p_agonist |-> AgonistScore,
                       p_antagonist |-> AntagonistScore,
                       p_inactive |-> InactiveScore]
        IN  [index |-> i - 1,
             smiles |-> smiles[i],
             p_agonist |-> scores.p_agonist,
             p_antagonist |-> scores.p_antagonist,
             p_inactive |-> scores.p_inactive,
             pred_label |-> idxmax(scores),
             binary_agonist_vs_antagonist |->
                 astype_int(scores.p_agonist >= thr)]]

(***************************************************************************)
(* Exports.  A number is written as its digits: Repr is Python's shortest  *)
(* repr of the float (0.1 for 0.10), Fmt4 is the format spec .4f.          *)
(***************************************************************************)
Repr(h) ==
    IF h % 10 = 0 THEN <<h \div 100, ".", (h % 100) \div 10>>
    ELSE <<h \div 100, ".", (h % 100) \div 10, h % 10>>

Fmt4(h) == <<h \div 100, ".", (h % 100) \div 10, h % 10, 0, 0>>

CsvHeader ==
    <<"smiles", "p_agonist", "p_antagonist", "p_inactive", "pred_label",
      "binary_agonist_vs_antagonist">>

\* results.to_csv(index=False): the header row, then one row per record.
to_csv(df) ==
    <<CsvHeader>> \o
    [k \in 1..Len(df) |->
        <<df[k].smiles, Repr(df[k].p_agonist), Repr(df[k].p_antagonist),
          Repr(df[k].p_inactive), df[k].pred_label,
          df[k].binary_agonist_vs_antagonist>>]

\* The text written for one row (lines 140-146).
SummaryText(r) ==
    << <<"smiles: ", r.smiles>>,
       <<"p_agonist: ", Fmt4(r.p_agonist)>>,
       <<"p_antagonist: ", Fmt4(r.p_antagonist)>>,
       <<"p_inactive: ", Fmt4(r.p_inactive)>>,
       <<"label: ", r.pred_label>> >>

\* Mutant of ZipEntries: entries are named by the 0-based index label.
ZipEntriesZeroBased(df) ==
    [k \in 1..Len(df) |->
        [name |-> <<"ligand_", df[k].index, ".txt">>,
         txt |-> SummaryText(df[k])]]

\* for i, row in results.iterrows(): zf.writestr(f"ligand_{i+1}.txt", txt)
ZipEntries(df) ==
    [k \in 1..Len(df) |->
        [name |-> <<"ligand_", df[k].index + 1, ".txt">>,
         txt |-> SummaryText(df[k])]]

(***************************************************************************)
(* One execution of the script (lines 97-152).                             *)
(***************************************************************************)
DefaultThreshold == 50   \* st.slider(..., value=0.5, ...)
SliderMax == 100         \* max_value=1.0 in steps of 0.01

ErrNoColumn == "Uploaded CSV must contain a 'smiles' column."
ErrReadCsv == "Error reading CSV"
ErrNoInput == "Provide at least one SMILES string before predicting."

CsvFile == "gpcr_predictions.csv"
ZipFile == "gpcr_per_ligand.zip"

\* Mutant of EmptySmilesList: the list of the previous execution survives.
StaleSmilesList == smiles_list

\* smiles_list: List[str] = []      (line 109)
EmptySmilesList == <<>>

\* The st.error calls of lines 110-118.
UploadErrors(up) ==
    IF up.kind = "none" THEN <<>>
    ELSE IF up.kind = "malformed" THEN <<ErrReadCsv>>
    ELSE IF "smiles" \notin up.columns THEN <<ErrNoColumn>>
    ELSE <<>>

\* smiles_list after lines 110-118.
ListAfterUpload(up, list) ==
    IF up.kind = "csv" /\ "smiles" \in up.columns
    THEN tolist(up.smiles)
    ELSE list

\* smiles_list after lines 120-121.
ListAfterText(text, list) ==
    IF text # <<>> /\ list = <<>> THEN ParseText(text) ELSE list

\* Mutant of NoInput: the emptiness check is missing.
NoInputNever(list) == FALSE

\* `not smiles_list` (line 124)
NoInput(list) == list = <<>>

NoRun == [inputs |-> <<>>, outcome |-> <<>>, failed_since |-> FALSE]

\* The script executed with the given widget values.  `keep` says whether
\* this execution is the one kept in `remembered`.
Rerun(text, up, thr, raw, btn, keep) ==
    LET l0 == EmptySmilesList
        l1 == ListAfterUpload(up, l0)
        l2 == ListAfterText(text, l1)
        go == btn /\ ~NoInput(l2)
        df == IF go THEN _mock_gpcr_results(l2, thr) ELSE <<>>
        errs == UploadErrors(up)
                    \o (IF btn /\ NoInput(l2) THEN <<ErrNoInput>> ELSE <<>>)
        dls == IF go
               THEN <<[file_name |-> CsvFile, data |-> to_csv(df)],
                      [file_name |-> ZipFile, data |-> ZipEntries(df)]>>
               ELSE <<>>
    IN  /\ smiles_text' = text
        /\ uploaded' = up
        /\ threshold' = thr
        /\ show_raw' = raw
        /\ run_btn' = btn
        /\ smiles_list' = l2
        /\ errors' = errs
        /\ calls' = IF go THEN <<l2>> ELSE <<>>
        /\ results' = df
        /\ shown' = IF go /\ raw THEN <<df>> ELSE <<>>
        /\ downloads' = dls
        /\ infos' = IF ~btn /\ l2 # <<>> THEN <<Len(l2)>> ELSE <<>>
        /\ remembered' =
                IF keep
                THEN [inputs |-> <<text, up, thr, btn>>,
                      outcome |-> <<errs, df, dls>>,
                      failed_since |-> FALSE]
                ELSE IF remembered = NoRun THEN NoRun
                ELSE [remembered EXCEPT !.failed_since = @ \/ errs # <<>>]

\* The state after the first execution, every widget at its default.
Init ==
    /\ smiles_text = <<>>
    /\ uploaded = NoUpload
    /\ threshold = DefaultThreshold
    /\ show_raw = TRUE
    /\ run_btn = FALSE
    /\ smiles_list = <<>>
    /\ errors = <<>>
    /\ infos = <<>>
    /\ calls = <<>>
    /\ results = <<>>
    /\ shown = <<>>
    /\ downloads = <<>>
    /\ remembered = NoRun

(***************************************************************************)
(* Widget interactions.  T, U, S are the values the user may enter, K the  *)
(* choices of keeping the execution for comparison.                        *)
(***************************************************************************)
EditText(T, K) ==
    \E t \in T, keep \in K :
        /\ t # smiles_text
        /\ Rerun(t, uploaded, threshold, show_raw, FALSE, keep)

Upload(U, K) ==
    \E u \in U, keep \in K :
        /\ u # uploaded
        /\ Rerun(smiles_text, u, threshold, show_raw, FALSE, keep)

MoveSlider(S, K) ==
    \E t \in S, keep \in K :
        /\ t # threshold
        /\ Rerun(smiles_text, uploaded, t, show_raw, FALSE, keep)

ToggleShowRaw ==
    Rerun(smiles_text, uploaded, threshold, ~show_raw, FALSE, FALSE)

PressPredict(K) ==
    \E keep \in K :
        Rerun(smiles_text, uploaded, threshold, show_raw, TRUE, keep)

(***************************************************************************)
(* Specifications.                                                         *)
(***************************************************************************)
Texts == TextsUpTo(MaxTextLen)
Uploads == UploadsUpTo(MaxRows)
Thresholds == {DefaultThreshold, AgonistScore, AgonistScore + 1}

\* The application.
Next ==
    \/ EditText(Texts, {FALSE})
    \/ Upload(Uploads, {FALSE})
    \/ MoveSlider(Thresholds, {FALSE})
    \/ ToggleShowRaw
    \/ PressPredict({FALSE})

Spec == Init /\ [][Next]_vars

\* The application with free text only, over longer texts.
LongTexts == TextsUpTo(MaxLineTextLen)

NextText ==
    \/ EditText(LongTexts, {FALSE})
    \/ PressPredict({FALSE})

SpecText == Init /\ [][NextText]_vars

\* The application over every position of the slider.
SliderValues == 0..SliderMax
FewTexts == {<<>>, <<"C">>, <<"C", "\n", "N">>, <<"N", "\n", "N">>}

NextSlider ==
    \/ MoveSlider(SliderValues, {FALSE})
    \/ EditText(FewTexts, {FALSE})
    \/ PressPredict({FALSE})

SpecSlider == Init /\ [][NextSlider]_vars

\* The application with one earlier execution kept for comparison.
HistTexts == {<<>>, <<"C">>}
HistUploads ==
    {NoUpload, Malformed, Table({"smiles"}, <<>>),
     Table({"smiles"}, <<StrCell(<<"N">>)>>)}
HistThresholds == {DefaultThreshold, AgonistScore + 1}

NextHist ==
    \/ EditText(HistTexts, BOOLEAN)
    \/ Upload(HistUploads, BOOLEAN)
    \/ MoveSlider(HistThresholds, BOOLEAN)
    \/ PressPredict(BOOLEAN)

SpecHist == Init /\ [][NextHist]_vars

(***************************************************************************)
(* Properties.                                                             *)
(***************************************************************************)
UploadFailed ==
    \/ uploaded.kind = "malformed"
    \/ uploaded.kind = "csv" /\ "smiles" \notin uploaded.columns

UploadHasColumn == uploaded.kind = "csv" /\ "smiles" \in uploaded.columns

\* C1: when the uploaded file cannot be parsed or has no `smiles` column,
\* pressing 'Predict Activity' produces no result table and no export,
\* whatever the free text holds.
C1_FailedUploadIsTerminal ==
    (run_btn /\ UploadFailed) =>
        /\ calls = <<>>
        /\ results = <<>>
        /\ shown = <<>>
        /\ downloads = <<>>

\* C2: when Predict is pressed with no identifier resolved, the no-input
\* error is reported, the scoring function is not invoked and nothing is
\* exported; the scoring function is only ever invoked with a non-empty list.
C2_NoInputNeverScored ==
    /\ (run_btn /\ smiles_list = <<>>) =>
            /\ \E i \in 1..Len(errors) : errors[i] = ErrNoInput
            /\ calls = <<>>
            /\ results = <<>>
            /\ downloads = <<>>
    /\ \A i \in 1..Len(calls) : calls[i] # <<>>

C2_Witness ==
    /\ run_btn
    /\ smiles_list = <<>>
    /\ smiles_text # <<>>
    /\ errors = <<ErrNoInput>>

\* C3: whenever the upload has a `smiles` column the identifier list is that
\* column's values in row order (as text) and the free text is ignored, also
\* for an upload of zero rows; free text is used only without such an upload.
C3_UploadTakesPrecedence ==
    /\ UploadHasColumn => smiles_list = tolist(uploaded.smiles)
    /\ ~UploadHasColumn => smiles_list = ParseText(smiles_text)

\* C4: the result table has exactly one record per submitted identifier, the
\* i-th record carries the i-th identifier, duplicates keep their own record.
C4_OneRecordPerIdentifier ==
    \A c \in 1..Len(calls) :
        /\ Len(results) = Len(calls[c])
        /\ \A i \in 1..Len(calls[c]) : results[i].smiles = calls[c][i]

C4_Witness ==
    /\ calls # <<>>
    /\ Len(results) = 2
    /\ results[1].smiles = results[2].smiles

\* The classes in their priority order, and the score a record gives each.
ClassOrder == <<"agonist", "antagonist", "inactive">>

ClassScore(r, c) ==
    CASE c = "agonist" -> r.p_agonist
      [] c = "antagonist" -> r.p_antagonist
      [] c = "inactive" -> r.p_inactive

\* C5: every record's predicted label is one of agonist, antagonist,
\* inactive and is the class of maximal score, the first in the order
\* agonist, antagonist, inactive on a tie.
C5_LabelIsArgmaxClass ==
    \A k \in 1..Len(results) :
        \E i \in 1..Len(ClassOrder) :
            /\ results[k].pred_label = ClassOrder[i]
            /\ \A j \in 1..Len(ClassOrder) :
                    ClassScore(results[k], ClassOrder[j])
                        <= ClassScore(results[k], ClassOrder[i])
            /\ \A j \in 1..(i - 1) :
                    ClassScore(results[k], ClassOrder[j])
                        # ClassScore(results[k], ClassOrder[i])

\* C6: for every threshold of the slider, a record's binary decision is 1
\* exactly when its agonist score is at least the threshold and 0 otherwise,
\* the one threshold applying to every record.
C6_DecisionIsScoreAtLeastThreshold ==
    \A k \in 1..Len(results) :
        /\ results[k].binary_agonist_vs_antagonist \in {0, 1}
        /\ results[k].binary_agonist_vs_antagonist = 1
                <=> results[k].p_agonist >= threshold

C6_Witness ==
    /\ threshold = AgonistScore
    /\ Len(results) = 2
    /\ \A k \in 1..Len(results) :
            /\ results[k].p_agonist = threshold
            /\ results[k].binary_agonist_vs_antagonist = 1

\* C7: the archive of a result table of N records holds N entries in record
\* order, named ligand_1.txt to ligand_N.txt, entry k describing record k.
C7_ZipEntryPerRecord ==
    \A d \in 1..Len(downloads) :
        downloads[d].file_name = ZipFile =>
            LET zip == downloads[d].data
            IN  /\ Len(zip) = Len(results)
                /\ \A k \in 1..Len(zip) :
                        /\ zip[k].name = <<"ligand_", k, ".txt">>
                        /\ zip[k].txt[1] = <<"smiles: ", results[k].smiles>>
                        /\ zip[k].txt[2]
                            = <<"p_agonist: ", Fmt4(results[k].p_agonist)>>
                        /\ zip[k].txt[3]
                            = <<"p_antagonist: ",
                                Fmt4(results[k].p_antagonist)>>
                        /\ zip[k].txt[4]
                            = <<"p_inactive: ", Fmt4(results[k].p_inactive)>>
                        /\ zip[k].txt[5]
                            = <<"label: ", results[k].pred_label>>

C7_Witness ==
    /\ Len(downloads) = 2
    /\ downloads[2].file_name = ZipFile
    /\ Len(downloads[2].data) = 2
    /\ downloads[2].data[2].name = <<"ligand_", 2, ".txt">>

\* The identifiers of a text, stated on positions: <<a, b>> is in IdSpans(t)
\* when a and b are the first and the last non-whitespace character of one
\* line of t.
OnOneLine(t, a, b) == \A k \in a..b : t[k] \notin LineBreaks

IdSpans(t) ==
    {sp \in (1..Len(t)) \X (1..Len(t)) :
        /\ sp[1] <= sp[2]
        /\ t[sp[1]] \notin Whitespace
        /\ t[sp[2]] \notin Whitespace
        /\ OnOneLine(t, sp[1], sp[2])
        /\ \A k \in 1..(sp[1] - 1) :
                OnOneLine(t, k, sp[1]) => t[k] \in Whitespace
        /\ \A k \in (sp[2] + 1)..Len(t) :
                OnOneLine(t, sp[2], k) => t[k] \in Whitespace}

\* C8: on the free-text path the identifier list is the lines of the text,
\* each trimmed, the blank ones dropped, in order and without deduplication;
\* every identifier is non-empty and has no whitespace at either end.
C8_FreeTextLines ==
    ~UploadHasColumn =>
        LET spans == IdSpans(smiles_text)
        IN  /\ Len(smiles_list) = Cardinality(spans)
            /\ \A sp \in spans :
                    smiles_list[1 + Cardinality({q \in spans : q[1] < sp[1]})]
                        = SubSeq(smiles_text, sp[1], sp[2])
            /\ \A i \in 1..Len(smiles_list) :
                    /\ smiles_list[i] # <<>>
                    /\ smiles_list[i][1] \notin Whitespace
                    /\ smiles_list[i][Len(smiles_list[i])] \notin Whitespace

C8_Witness ==
    /\ uploaded = NoUpload
    /\ smiles_text = <<" ", "C", "\n">>
    /\ smiles_list = << <<"C">> >>

\* C9: every record's scores are (0.55, 0.35, 0.10) and its label that of
\* this triple, whatever the identifier, its position and the threshold.
C9_ScoresAreConstant ==
    \A k \in 1..Len(results) :
        /\ results[k].p_agonist = AgonistScore
        /\ results[k].p_antagonist = AntagonistScore
        /\ results[k].p_inactive = InactiveScore
        /\ results[k].pred_label = ScoreColumns[1]

C9_Witness ==
    /\ threshold > AgonistScore
    /\ Len(results) = 2
    /\ results[1].smiles # results[2].smiles
    /\ results[1].binary_agonist_vs_antagonist = 0

====
